---- MODULE Spec2Model ----
(***************************************************************************)
(* Model of package grpc_zerolog, options.go: the functional options of    *)
(* the logging interceptors and evaluateOptions, which builds an *options  *)
(* from the package defaults and a list of Option closures.                *)
(*                                                                         *)
(* Go values with identity are modelled with their identity: an *options   *)
(* is a pointer into the heap objs, a []LoggableEvent is a reference to a  *)
(* backing array in arrays, a func value is the name of its closure.       *)
(***************************************************************************)
EXTENDS Integers, Sequences, FiniteSets, TLC

VARIABLES objs, arrays, frames

vars == <<objs, arrays, frames>>

-----------------------------------------------------------------------------
(* Bounds *)

\* number of evaluateOptions calls (each may run concurrently with the others)
MaxCalls == 2
\* length of the Option list of a single build
MaxOpts == 3
\* length of the Option list of each of several concurrent builds
MaxConcOpts == 2
\* length of the common prefix p of the two builds p.d and p.d.d
MaxPrefix == 1

-----------------------------------------------------------------------------
(* Values *)

\* type LoggableEvent uint, const ( ... iota )
StartCall == 0
FinishCall == 1
PayloadReceived == 2
PayloadSent == 3
LoggableEvent == {StartCall, FinishCall, PayloadReceived, PayloadSent}

\* the nil func value, the nil error
NIL == "nil"

\* codes.Code: codes.OK and two of the other codes
Codes == {"OK", "NotFound", "Internal"}

\* arguments of a Decider: full method names and error values (nil or not)
Methods == {"/svc/Method", "/svc/Other"}
Errs == {NIL, "err"}

\* a default mapper with the two levels exchanged
DefaultCodeToLevelFunc_Inverted(code) ==
    IF code = "OK" THEN "ErrorLevel" ELSE "InfoLevel"

\* DefaultCodeToLevelFunc: Info on codes.OK, Error in all other cases
DefaultCodeToLevelFunc(code) == IF code = "OK" THEN "InfoLevel" ELSE "ErrorLevel"

\* DefaultDeciderFunc: true always
DefaultDeciderFunc(fullMethodName, err) == TRUE

\* CodeToLevel values: the default and two functions a caller supplies.
\* Calling the nil func has no result (it panics): no case for NIL.
CallCodeToLevel(f, code) ==
    CASE f = "DefaultCodeToLevelFunc" -> DefaultCodeToLevelFunc(code)
      [] f = "m1" -> "DebugLevel"
      [] f = "m2" -> IF code = "OK" THEN "DebugLevel" ELSE "WarnLevel"

\* Decider values: the default and two functions a caller supplies.
CallDecider(f, fullMethodName, err) ==
    CASE f = "DefaultDeciderFunc" -> DefaultDeciderFunc(fullMethodName, err)
      [] f = "alwaysFalse" -> FALSE
      [] f = "errorsOnly" -> err # NIL

\* []LoggableEvent values: the nil slice, or a reference to a backing array
NilSlice == 0
\* the backing array of defaultOptions.loggableEvents
DefaultEvents == 1
\* the backing array of a slice s the caller passes as WithLogOnEvents(s...)
CallerEvents == 2

\* the elements of a slice
Contents(arrs, s) == IF s = NilSlice THEN <<>> ELSE arrs[s]

Range(q) == {q[k] : k \in 1..Len(q)}

\* the events a slice holds
Elems(arrs, s) == Range(Contents(arrs, s))

\* type options struct
OptionsValue(l, d, e) == [levelFunc |-> l, shouldLog |-> d, loggableEvents |-> e]

\* &options{}: the zero value
ZeroOptions == OptionsValue(NIL, NIL, NilSlice)

\* defaultOptions = &options{...}
DefaultOptionsValue ==
    OptionsValue("DefaultCodeToLevelFunc", "DefaultDeciderFunc", DefaultEvents)

\* the address of defaultOptions
DefaultOptionsPtr == 0

Calls == 1..MaxCalls

\* the address of the object call c allocates with &options{}
NewOptions(c) == c

Ptrs == {DefaultOptionsPtr} \cup Calls

-----------------------------------------------------------------------------
(* Options *)

\* an Option is a closure: its constructor and what it captured
Opt(ctor, f, events) == [ctor |-> ctor, f |-> f, events |-> events]

\* the nil Option
NilOption == Opt("nil", NIL, NilSlice)

LevelArgs == {"m1", "m2", NIL}
DeciderArgs == {"alwaysFalse", "errorsOnly", NIL}
EventArgs == {NilSlice, CallerEvents}

\* the Options a caller can put in the list
Directives ==
    {Opt("WithLevels", f, NilSlice) : f \in LevelArgs}
    \cup {Opt("WithDecider", f, NilSlice) : f \in DeciderArgs}
    \cup {Opt("WithLogOnEvents", NIL, e) : e \in EventArgs}
    \cup {NilOption}

\* the Options of the builds that run concurrently
ConcDirectives ==
    {Opt("WithLevels", "m1", NilSlice), Opt("WithLogOnEvents", NIL, CallerEvents)}

Seqs(S, n) == UNION {[1..k -> S] : k \in 0..n}

\* the event lists a caller passes
CallerEventLists ==
    {<<PayloadSent>>, <<StartCall, StartCall>>, <<FinishCall, PayloadReceived>>}

\* the event list the caller of the concurrent builds passes, and then writes to
ConcCallerEventLists == {<<PayloadSent>>}

\* a WithLevels that keeps a mapper an earlier directive set
WithLevels_FirstWins(f, o, h) ==
    IF h.objs[o].levelFunc = "DefaultCodeToLevelFunc"
    THEN [h EXCEPT !.objs[o].levelFunc = f]
    ELSE h

\* func(o *options) { o.levelFunc = f }
WithLevels(f, o, h) == [h EXCEPT !.objs[o].levelFunc = f]

\* a WithDecider whose closure writes to a copy of *o
WithDecider_Ignored(f, o, h) == h

\* func(o *options) { o.shouldLog = f }
WithDecider(f, o, h) == [h EXCEPT !.objs[o].shouldLog = f]

\* a WithLogOnEvents that ignores an empty event list
WithLogOnEvents_NonEmptyOnly(events, o, h) ==
    IF Contents(h.arrays, events) = <<>>
    THEN h
    ELSE [h EXCEPT !.objs[o].loggableEvents = events]

\* a WithLogOnEvents that appends: o.loggableEvents = append(o.loggableEvents, events...)
WithLogOnEvents_Append(events, o, h) ==
    LET old == Contents(h.arrays, h.objs[o].loggableEvents)
        new == Len(h.arrays) + 1
    IN [objs |-> [h.objs EXCEPT ![o].loggableEvents = new],
        arrays |-> Append(h.arrays, old \o Contents(h.arrays, events))]

\* func(o *options) { o.loggableEvents = events }
WithLogOnEvents(events, o, h) == [h EXCEPT !.objs[o].loggableEvents = events]

\* an Option application that also panics on a nil mapper
IsNilOption_OrNilLevels(opt) ==
    opt.ctor = "nil" \/ (opt.ctor = "WithLevels" /\ opt.f = NIL)

\* calling the nil Option panics
IsNilOption(opt) == opt.ctor = "nil"

\* o(optCopy): the heap after the closure ran
ApplyOption(opt, o, h) ==
    CASE opt.ctor = "WithLevels" -> WithLevels(opt.f, o, h)
      [] opt.ctor = "WithDecider" -> WithDecider(opt.f, o, h)
      [] opt.ctor = "WithLogOnEvents" -> WithLogOnEvents(opt.events, o, h)

-----------------------------------------------------------------------------
(* evaluateOptions, one step per statement *)

Heap == [objs |-> objs, arrays |-> arrays]

IdleFrame == [pc |-> "idle", opts |-> <<>>, i |-> 0, optCopy |-> DefaultOptionsPtr]

\* optCopy = defaultOptions: the pointer is copied, not the struct
CopyStep_Alias(ptr, os) == [optCopy |-> DefaultOptionsPtr, objs |-> os]

\* the copy of the defaults left out
CopyStep_Skip(ptr, os) == [optCopy |-> ptr, objs |-> os]

\* *optCopy = *defaultOptions
CopyStep(ptr, os) ==
    [optCopy |-> ptr, objs |-> [os EXCEPT ![ptr] = os[DefaultOptionsPtr]]]

\* the frame of call c after optCopy := &options{}
CalledFrame(c, opts) ==
    [pc |-> "copy", opts |-> opts, i |-> 0, optCopy |-> NewOptions(c)]

\* the call, with one of the lists of Options, and optCopy := &options{}
Call(c, lists) ==
    /\ frames[c].pc = "idle"
    /\ \E opts \in lists : frames' = [frames EXCEPT ![c] = CalledFrame(c, opts)]
    /\ objs' = [objs EXCEPT ![NewOptions(c)] = ZeroOptions]
    /\ UNCHANGED arrays

CopyDefaults(c) ==
    /\ frames[c].pc = "copy"
    /\ LET r == CopyStep(frames[c].optCopy, objs)
       IN /\ objs' = r.objs
          /\ frames' = [frames EXCEPT ![c].pc = "loop", ![c].i = 1,
                                      ![c].optCopy = r.optCopy]
    /\ UNCHANGED arrays

\* for _, o := range opts { o(optCopy) }
ApplyOpt(c) ==
    /\ frames[c].pc = "loop"
    /\ frames[c].i <= Len(frames[c].opts)
    /\ LET opt == frames[c].opts[frames[c].i]
       IN \/ /\ IsNilOption(opt)
             /\ frames' = [frames EXCEPT ![c].pc = "panicked"]
             /\ UNCHANGED <<objs, arrays>>
          \/ /\ ~IsNilOption(opt)
             /\ LET h == ApplyOption(opt, frames[c].optCopy, Heap)
                IN /\ objs' = h.objs
                   /\ arrays' = h.arrays
             /\ frames' = [frames EXCEPT ![c].i = @ + 1]

\* return optCopy
Return(c) ==
    /\ frames[c].pc = "loop"
    /\ frames[c].i > Len(frames[c].opts)
    /\ frames' = [frames EXCEPT ![c].pc = "returned"]
    /\ UNCHANGED <<objs, arrays>>

\* the caller of WithLogOnEvents(s...) writes s[k] = e
SetElem(k, e) ==
    /\ arrays[CallerEvents][k] # e
    /\ arrays' = [arrays EXCEPT ![CallerEvents][k] = e]
    /\ UNCHANGED <<objs, frames>>

\* evaluateOptions run alone, from the package's initial state
RECURSIVE RunLoop(_, _, _, _)
RunLoop(opts, i, o, h) ==
    IF i > Len(opts) THEN h.objs[o]
    ELSE RunLoop(opts, i + 1, o, ApplyOption(opts[i], o, h))

RunAlone(c, opts, os, arrs) ==
    LET r == CopyStep(NewOptions(c), [os EXCEPT ![NewOptions(c)] = ZeroOptions])
    IN RunLoop(opts, 1, r.optCopy, [objs |-> r.objs, arrays |-> arrs])

-----------------------------------------------------------------------------
(* Specifications *)

InitObjs == [p \in Ptrs |-> IF p = DefaultOptionsPtr THEN DefaultOptionsValue
                            ELSE ZeroOptions]

InitHeap(lists) ==
    /\ objs = InitObjs
    /\ \E s \in lists : arrays = <<<<StartCall, FinishCall>>, s>>

\* the program: concurrent builds, and the caller writing to its slice
Init ==
    /\ InitHeap(ConcCallerEventLists)
    /\ frames = [c \in Calls |-> IdleFrame]

BuildStep(c) == CopyDefaults(c) \/ ApplyOpt(c) \/ Return(c)

Next ==
    \/ \E c \in Calls : Call(c, Seqs(ConcDirectives, MaxConcOpts))
    \/ \E c \in Calls : CopyDefaults(c)
    \/ \E c \in Calls : ApplyOpt(c)
    \/ \E c \in Calls : Return(c)
    \/ \E k \in DOMAIN arrays[CallerEvents] : \E e \in LoggableEvent : SetElem(k, e)

Spec == Init /\ [][Next]_vars

\* one build, from every list of Options
NextBuild ==
    \/ Call(1, Seqs(Directives, MaxOpts))
    \/ CopyDefaults(1)
    \/ ApplyOpt(1)
    \/ Return(1)

InitBuild ==
    /\ InitHeap(CallerEventLists)
    /\ frames = [c \in Calls |-> IdleFrame]

SpecBuild == InitBuild /\ [][NextBuild]_vars

\* the scheduler runs a started build to its end
SpecBuildFair == SpecBuild /\ WF_vars(CopyDefaults(1) \/ ApplyOpt(1) \/ Return(1))

\* two builds: one from p followed by d, one from p followed by d, d
InitIdem ==
    /\ InitHeap(CallerEventLists)
    /\ \E p \in Seqs(Directives, MaxPrefix) : \E d \in Directives :
          frames = [c \in Calls |->
                      IF c = 1 THEN CalledFrame(1, Append(p, d))
                      ELSE IF c = 2 THEN CalledFrame(2, Append(Append(p, d), d))
                      ELSE IdleFrame]

NextIdem ==
    \/ \E c \in {1, 2} : CopyDefaults(c)
    \/ \E c \in {1, 2} : ApplyOpt(c)
    \/ \E c \in {1, 2} : Return(c)

SpecIdem == InitIdem /\ [][NextIdem]_vars

-----------------------------------------------------------------------------
(* Properties *)

Returned(c) == frames[c].pc = "returned"

\* the snapshot call c works on, and returns
Snap(c) == objs[frames[c].optCopy]

\* the events enabled in the snapshot of call c
Enabled(c) == Elems(arrays, Snap(c).loggableEvents)

\* the index of the last Option of the list that a constructor made, or 0
LastIdx(opts, ctor) ==
    LET S == {j \in 1..Len(opts) : opts[j].ctor = ctor}
    IN IF S = {} THEN 0 ELSE CHOOSE j \in S : \A k \in S : k <= j

\* per field, what the last Option that targets it supplies, or the default
ExpectedOptions(opts) ==
    LET l == LastIdx(opts, "WithLevels")
        d == LastIdx(opts, "WithDecider")
        e == LastIdx(opts, "WithLogOnEvents")
    IN OptionsValue(IF l = 0 THEN "DefaultCodeToLevelFunc" ELSE opts[l].f,
                    IF d = 0 THEN "DefaultDeciderFunc" ELSE opts[d].f,
                    IF e = 0 THEN DefaultEvents ELSE opts[e].events)

\* the Options of call c that have run
Applied(c) == SubSeq(frames[c].opts, 1, frames[c].i - 1)

\* C1: a build from the empty list returns the documented defaults: Info for
\* codes.OK, Error for every other code, true for every method and error (nil
\* included), and exactly StartCall and FinishCall enabled.
C1_EmptyListYieldsDefaults ==
    \A c \in Calls :
        (Returned(c) /\ frames[c].opts = <<>>) =>
            /\ Snap(c).levelFunc # NIL
            /\ CallCodeToLevel(Snap(c).levelFunc, "OK") = "InfoLevel"
            /\ \A code \in Codes \ {"OK"} :
                  CallCodeToLevel(Snap(c).levelFunc, code) = "ErrorLevel"
            /\ Snap(c).shouldLog # NIL
            /\ \A m \in Methods : \A err \in Errs :
                  CallDecider(Snap(c).shouldLog, m, err)
            /\ Enabled(c) = {StartCall, FinishCall}

C1_Witness == Returned(1) /\ frames[1].opts = <<>>

\* C2: after each Option of the list has run, and in the snapshot returned,
\* every field holds what the last Option run so far that targets it supplies,
\* or the default if none does: Options run in list order, and an Option for
\* one field leaves the other two alone.
C2_LastWriteWins ==
    \A c \in Calls :
        frames[c].pc \in {"loop", "returned", "panicked"} =>
            Snap(c) = ExpectedOptions(Applied(c))

C2_Witness ==
    /\ Returned(1)
    /\ frames[1].opts = <<Opt("WithLevels", "m1", NilSlice),
                          Opt("WithDecider", "alwaysFalse", NilSlice),
                          Opt("WithLevels", "m2", NilSlice)>>
    /\ Snap(1).levelFunc = "m2"

\* C3: WithLogOnEvents replaces the event set: in the snapshot returned, an
\* event is enabled exactly if it is in the list of the last WithLogOnEvents,
\* be it one event, a list with duplicates or the empty list.
C3_EventsReplaced ==
    \A c \in Calls :
        (Returned(c) /\ LastIdx(frames[c].opts, "WithLogOnEvents") # 0) =>
            LET last == frames[c].opts[LastIdx(frames[c].opts, "WithLogOnEvents")]
            IN \A e \in LoggableEvent :
                  e \in Enabled(c) <=> e \in Elems(arrays, last.events)

C3_Witness ==
    /\ Returned(1)
    /\ LastIdx(frames[1].opts, "WithLogOnEvents") # 0
    /\ frames[1].opts[LastIdx(frames[1].opts, "WithLogOnEvents")].events = CallerEvents
    /\ arrays[CallerEvents] = <<StartCall, StartCall>>
    /\ Enabled(1) = {StartCall}

\* C4 as stated: every snapshot returned has a non-nil mapper and a non-nil
\* rule, also when WithLevels or WithDecider was given nil.
C4_NeverNil ==
    \A c \in Calls :
        Returned(c) => Snap(c).levelFunc # NIL /\ Snap(c).shouldLog # NIL

\* C4 as amended: in a snapshot returned, the mapper (the rule) is nil exactly
\* if the last WithLevels (WithDecider) of the list was given nil; so it is
\* non-nil for every list whose functions are non-nil.
C4_NilOnlyFromNilArgument ==
    \A c \in Calls :
        Returned(c) =>
            LET l == LastIdx(frames[c].opts, "WithLevels")
                d == LastIdx(frames[c].opts, "WithDecider")
            IN /\ Snap(c).levelFunc = NIL <=> (l # 0 /\ frames[c].opts[l].f = NIL)
               /\ Snap(c).shouldLog = NIL <=> (d # 0 /\ frames[c].opts[d].f = NIL)

C4_Witness ==
    /\ Returned(1)
    /\ frames[1].opts = <<Opt("WithLogOnEvents", NIL, CallerEvents),
                          Opt("WithDecider", "errorsOnly", NilSlice)>>
    /\ Snap(1).levelFunc = "DefaultCodeToLevelFunc"
    /\ Snap(1).shouldLog = "errorsOnly"

\* C5: builds leave the shared state alone: defaultOptions and its event list
\* keep their values, a build from the empty list returns the defaults
\* whatever was built before, and a snapshot returned keeps its fields.
C5_DefaultsUntouched ==
    /\ objs[DefaultOptionsPtr] = DefaultOptionsValue
    /\ arrays[DefaultEvents] = <<StartCall, FinishCall>>
    /\ \A c \in Calls :
          Returned(c) =>
              /\ frames[c].opts = <<>> =>
                    (Snap(c) = DefaultOptionsValue /\ Enabled(c) = {StartCall, FinishCall})
              /\ Snap(c) = ExpectedOptions(frames[c].opts)

C5_Witness ==
    /\ Returned(1) /\ frames[1].opts # <<>>
    /\ Returned(2) /\ frames[2].opts = <<>>
    /\ Snap(1) # DefaultOptionsValue

\* what the queries on the snapshot of call c answer
QueryOutputs(c) ==
    [severity |-> [code \in Codes |->
                     IF Snap(c).levelFunc = NIL THEN "panic"
                     ELSE CallCodeToLevel(Snap(c).levelFunc, code)],
     shouldLog |-> [a \in Methods \X Errs |->
                     IF Snap(c).shouldLog = NIL THEN "panic"
                     ELSE IF CallDecider(Snap(c).shouldLog, a[1], a[2]) THEN "true"
                     ELSE "false"],
     enabled |-> Enabled(c)]

\* C6: once a snapshot is returned, no step changes what a query on it
\* answers, a write of the caller to the event list it passed included.
C6_QueriesNeverChange ==
    [][\A c \in Calls : Returned(c) => QueryOutputs(c)' = QueryOutputs(c)]_vars

\* C7: in every interleaving of the builds, a step of a build writes only the
\* object that build allocated (not the defaults, not another build's
\* snapshot, no event list), and a build returns what it returns when run alone.
C7_BuildsIsolated ==
    /\ [](\A c \in Calls :
            Returned(c) => Snap(c) = RunAlone(c, frames[c].opts, InitObjs, arrays))
    /\ [][\A c \in Calls :
            frames'[c] # frames[c] =>
                /\ arrays' = arrays
                /\ \A p \in Ptrs \ {NewOptions(c)} : objs'[p] = objs[p]
                /\ frames'[c].optCopy = NewOptions(c)]_vars

C7_Witness ==
    /\ frames[1].pc = "loop" /\ frames[1].i = 2 /\ Len(frames[1].opts) = 2
    /\ frames[2].pc = "loop" /\ frames[2].i = 2
    /\ frames[1].opts # frames[2].opts

\* C8 as stated: no list of Options makes the build fail.
C8_NeverFails == \A c \in Calls : frames[c].pc # "panicked"

\* C8 as amended: a build from a list with no nil Option ends and returns a
\* snapshot; a build from a list with a nil Option panics.
C8_TotalOnNonNilOptions ==
    \A c \in Calls :
        /\ (frames[c].pc = "copy" /\ NilOption \notin Range(frames[c].opts))
              ~> Returned(c)
        /\ (frames[c].pc = "copy" /\ NilOption \in Range(frames[c].opts))
              ~> (frames[c].pc = "panicked")

C8_Witness ==
    /\ Returned(1)
    /\ Len(frames[1].opts) = 2
    /\ frames[1].opts[1].f = NIL

\* C9: the build from p, d, d returns the same three field values as the
\* build from p, d.
C9_Idempotent ==
    (Returned(1) /\ Returned(2)) =>
        /\ Snap(1).levelFunc = Snap(2).levelFunc
        /\ Snap(1).shouldLog = Snap(2).shouldLog
        /\ Snap(1).loggableEvents = Snap(2).loggableEvents
        /\ Contents(arrays, Snap(1).loggableEvents)
             = Contents(arrays, Snap(2).loggableEvents)

C9_Witness ==
    /\ Returned(1) /\ Returned(2)
    /\ frames[1].opts = <<Opt("WithLevels", "m1", NilSlice),
                          Opt("WithLogOnEvents", NIL, CallerEvents)>>
    /\ Len(frames[2].opts) = 3

\* C10: when the last WithDecider of the list supplies a function that always
\* returns false, the snapshot answers false for every method and error (nil
\* or not), and its rule is not the default one.
C10_DeciderDecides ==
    \A c \in Calls :
        LET d == LastIdx(frames[c].opts, "WithDecider")
        IN (Returned(c) /\ d # 0 /\ frames[c].opts[d].f = "alwaysFalse") =>
              /\ Snap(c).shouldLog \notin {NIL, "DefaultDeciderFunc"}
              /\ \A m \in Methods : \A err \in Errs :
                    ~CallDecider(Snap(c).shouldLog, m, err)

C10_Witness ==
    /\ Returned(1)
    /\ frames[1].opts = <<Opt("WithDecider", "errorsOnly", NilSlice),
                          Opt("WithDecider", "alwaysFalse", NilSlice)>>

====
